---- MODULE Spec2Model ----
(***************************************************************************)
(* Model of the NOLO VR HID driver front-end, src/drv_nolo/nolo.c:         *)
(* open_device / close_device, the polling loop and report dispatch of    *)
(* update_device, and the float accessor getf.                             *)
(*                                                                         *)
(* The host is single threaded: one driver callback runs at a time, so a   *)
(* callback's position is the single program counter pc.  hidapi, the      *)
(* allocator and the tracked hardware are the environment: their results   *)
(* are nondeterministic choices.  The per-record decoders                  *)
(* (nolo_decode_controller, nolo_decode_hmd_marker,                        *)
(* nolo_decode_base_station) and nolo.h are not part of nolo.c; they are   *)
(* modelled from the specification's description of the Pose Decoder.      *)
(***************************************************************************)
EXTENDS Integers, Sequences, FiniteSets

\* ------------------------------------------------------------------ bounds

\* Most reports the transport holds for one handle.
MaxQueue == 2

\* Most HID handles the host may hold open at once (a leaked handle counts).
MaxHandles == 1

\* ------------------------------------------------------- program constants

\* nolo.h: #define FEATURE_BUFFER_SIZE (the report size, 64 bytes).
FEATURE_BUFFER_SIZE == 64

\* The length with the parentheses of (3+4)*2 lost.
controllerLength_NoParentheses == 3 + 3+4*2 + 2 + 2 + 1

\* nolo.c:21  static const int controllerLength = 3 + (3+4)*2 + 2 + 2 + 1;
controllerLength == 3 + (3+4)*2 + 2 + 2 + 1

\* nolo.c:57-65: the tags of the switch, 0xa5 and 0xa6.
TagControllers == 165
TagHmd == 166

\* nolo.c:59  buffer+1
Controller0Offset == 1

\* The second record taken to end one byte before the report's end.
Controller1Offset_OneShort == 64 - controllerLength - 1

\* nolo.c:60  buffer+64-controllerLength
Controller1Offset == 64 - controllerLength

\* nolo.c:63  buffer+0x15
HmdMarkerOffset == 21

\* The base-station record taken to start one byte early, at 0x35.
BaseStationOffset_OneShort == 54 - 1

\* nolo.c:64  buffer+0x36
BaseStationOffset == 54

\* Bytes of a window the Pose Decoder reads for a marker or a base station.
\* The specification leaves both lengths to the decoder; the base-station
\* window must end by the report's end, which leaves it 64 - 0x36 bytes.
markerLength == FEATURE_BUFFER_SIZE - BaseStationOffset
stationLength == FEATURE_BUFFER_SIZE - BaseStationOffset

\* ------------------------------------------------------------------- data

Devices == {"hmd", "controller0", "controller1", "base_station"}

\* ohmd_float_value kinds a host may pass to getf: the two the driver
\* serves and two it does not.
FloatKinds ==
    {"OHMD_ROTATION_QUAT", "OHMD_POSITION_VECTOR",
     "OHMD_DISTORTION_K", "OHMD_LEFT_EYE_GL_PROJECTION_MATRIX"}

\* What the transport can deliver: a tag, a payload pattern and a size (the
\* whole report, or its first byte alone).  255 (0xFF) is a tag the switch
\* has no case for.
Tags == {TagControllers, TagHmd, 255}
Payloads == {1}
ReadSizes == {1, FEATURE_BUFFER_SIZE}

\* What an uninitialised stack byte can hold.
StackBytes == {0, 255}

\* Byte i of the report with tag t and payload pattern p: the tag at offset
\* 0, then bytes that differ at every offset and between patterns.
ReportByte(t, p, i) == IF i = 0 THEN t ELSE 64 * p + i

\* drv_priv is ohmd_alloc'ed, which zero-fills: rotation and position are 0.
ZeroPose == [rotation |-> <<0, 0, 0, 0>>, position |-> <<0, 0, 0>>]

\* The caller's float buffer before a getf call: four floats never written,
\* shown as -1.
OutBefore == <<-1, -1, -1, -1>>

\* One observable step of the callback in progress: the operation, the
\* tracked device and the decoder or value kind it concerns, its argument
\* (a decoder's offset into buffer[]; for a read, the first byte it wrote,
\* the report's tag; for the call of update_device, the number of reports
\* the transport holds; for a sprintf, the size of its destination), what it
\* returned (a sprintf: the bytes it wrote, the terminator included), and for
\* getf the caller's float buffer afterwards.
Ev(op, dev, kind, arg, ret, out) ==
    [op |-> op, dev |-> dev, kind |-> kind, arg |-> arg, ret |-> ret, out |-> out]

VARIABLES
    pc,         \* position of the running callback; "idle" between callbacks
    heap,       \* drv_priv blocks allocated and not freed
    handles,    \* hid handles opened and not closed
    nonblocking,\* whether hid_set_nonblocking(handle, 1) succeeded on priv->handle
    device,     \* what the host holds: "NULL" or "priv" (a device open_device returned)
    callbacks,  \* whether priv->base.update/close/getf are set
    ctxError,   \* the context's error message (ohmd_set_error)
    pose,       \* the Device Pose of each tracked device
    lastWindow, \* the window last handed to each device's decoder, <<>> if none
    queued,     \* reports the transport holds for the handle
    buffer,     \* update_device's local buffer[FEATURE_BUFFER_SIZE]
    trace       \* the steps of the most recent callback

vars == <<pc, heap, handles, nonblocking, device, callbacks, ctxError, pose,
          lastWindow, queued, buffer, trace>>

\* The buffer outside update_device: its stack frame does not exist.
NoBuffer == [i \in 0..(FEATURE_BUFFER_SIZE - 1) |-> 0]

Init ==
    /\ pc = "idle"
    /\ heap = 0
    /\ handles = 0
    /\ nonblocking = FALSE
    /\ device = "NULL"
    /\ callbacks = FALSE
    /\ ctxError = ""
    /\ pose = [d \in Devices |-> ZeroPose]
    /\ lastWindow = [d \in Devices |-> <<>>]
    /\ queued = 0
    /\ buffer = NoBuffer
    /\ trace = <<>>

\* ------------------------------------------------------------ open_device

\* nolo.c:125  priv = ohmd_alloc(...), which may fail.
OpenAlloc ==
    /\ pc = "idle"
    /\ device = "NULL"
    /\ \E ok \in BOOLEAN :
         IF ok
         THEN /\ heap' = heap + 1
              /\ pc' = "open_hid"
              /\ trace' = <<Ev("open_device", "", "", 0, 0, <<>>)>>
         ELSE \* nolo.c:126-127, 157-161: goto cleanup with priv = NULL
              /\ heap' = heap
              /\ pc' = "idle"
              /\ trace' = <<Ev("open_device", "", "", 0, 0, <<>>),
                            Ev("return", "", "NULL", 0, 0, <<>>)>>
    /\ UNCHANGED <<handles, nonblocking, device, callbacks, ctxError, pose,
                   lastWindow, queued, buffer>>

\* nolo.c:157-161  cleanup: if(priv) free(priv); return NULL;
Cleanup ==
    /\ heap' = heap - 1
    /\ pc' = "idle"
    /\ device' = "NULL"

\* --------------------------------------------------- _hid_to_unix_path

\* Device paths open_device is given, as characters: two of the form hidapi
\* gives a USB device (bus:device:interface in hex), one whose fields are at
\* their largest, and a hidraw node.
Paths ==
    { <<"0", "0", "0", "1", ":", "0", "0", "0", "4", ":", "0", "0">>,
      <<"0", "3", "e", "7", ":", "0", "3", "e", "8", ":", "0", "0">>,
      <<"f", "f", "f", "f", ":", "f", "f", "f", "f", ":", "0", "0">>,
      <<"/", "d", "e", "v", "/", "h", "i", "d", "r", "a", "w", "0">> }

\* nolo.c:109  const int len = 4;
FieldLen == 4

\* nolo.c:110-111  char bus [4]; char dev [4];
BusSize == 4
DevSize == 4

\* nolo.c:112  malloc( sizeof(char) * ( 20 + 1 ) )
ResultSize == 20 + 1

\* The characters "%.*s" with precision len copies from path + from: at most
\* len of them, fewer when the string ends first.
PathField(path, from, len) ==
    SubSeq(path, from + 1, IF from + len <= Len(path) THEN from + len ELSE Len(path))

\* nolo.c:114-115  sprintf(buf, "%.*s\n", len, p): the bytes written are the
\* field, the newline and the terminator.
FieldBytes(path, from, len) == Len(PathField(path, from, len)) + 2

HexDigits ==
    <<"0", "1", "2", "3", "4", "5", "6", "7", "8", "9", "a", "b", "c", "d", "e", "f">>
HexDigitsUpper ==
    <<"0", "1", "2", "3", "4", "5", "6", "7", "8", "9", "A", "B", "C", "D", "E", "F">>

IsHexDigit(c) ==
    \E k \in 1..16 : HexDigits[k] = c \/ HexDigitsUpper[k] = c

HexValue(c) ==
    (CHOOSE k \in 1..16 : HexDigits[k] = c \/ HexDigitsUpper[k] = c) - 1

\* nolo.c:118-119  (int)strtol(s, NULL, 16): the value of the hex digits s
\* starts with, 0 when it starts with none.
strtol16(s) ==
    LET F[k \in 0..Len(s)] ==
            IF k = 0 THEN [value |-> 0, more |-> TRUE]
            ELSE IF F[k - 1].more /\ IsHexDigit(s[k])
                 THEN [value |-> 16 * F[k - 1].value + HexValue(s[k]), more |-> TRUE]
                 ELSE [value |-> F[k - 1].value, more |-> FALSE]
    IN F[Len(s)].value

\* The characters "%03d" prints for n >= 0: its decimal digits, three at
\* least.
RECURSIVE DecimalDigits(_)
DecimalDigits(n) == IF n < 10 THEN 1 ELSE 1 + DecimalDigits(n \div 10)

Width03d(n) == IF DecimalDigits(n) < 3 THEN 3 ELSE DecimalDigits(n)

\* nolo.c:117-119  sprintf(result, "/dev/bus/usb/%03d/%03d", bus, dev): the
\* 13 characters of "/dev/bus/usb/", the two numbers, the "/" between them
\* and the terminator.
ResultBytes(path) ==
    13 + Width03d(strtol16(PathField(path, 0, FieldLen)))
       + 1 + Width03d(strtol16(PathField(path, 5, FieldLen))) + 1

\* nolo.c:107-121  the three formatted writes of _hid_to_unix_path(path).
hid_to_unix_path(path) ==
    <<Ev("sprintf", "", "bus", BusSize, FieldBytes(path, 0, FieldLen), <<>>),
      Ev("sprintf", "", "dev", DevSize, FieldBytes(path, 5, FieldLen), <<>>),
      Ev("sprintf", "", "result", ResultSize, ResultBytes(path), <<>>)>>

\* Whether a write among steps went past the end of its destination.
Overflowed(steps) ==
    \E k \in DOMAIN steps : steps[k].op = "sprintf" /\ steps[k].ret > steps[k].arg

\* nolo.c:132-140  priv->handle = hid_open_path(desc->path); when it fails,
\* the error names the path _hid_to_unix_path gives.  A write past the end
\* of bus, dev or result is undefined: the call goes on as if it had fit, or
\* the process is aborted.
OpenHid ==
    /\ pc = "open_hid"
    /\ \/ /\ handles < MaxHandles
          /\ handles' = handles + 1
          /\ pc' = "open_nonblock"
          /\ trace' = Append(trace, Ev("hid_open_path", "", "", 0, 1, <<>>))
          /\ UNCHANGED <<heap, device, ctxError>>
       \/ \E path \in Paths :
             /\ handles' = handles
             /\ ctxError' = "Could not open"
             /\ Cleanup
             /\ trace' = trace \o <<Ev("hid_open_path", "", "", 0, 0, <<>>)>>
                               \o hid_to_unix_path(path)
                               \o <<Ev("return", "", "NULL", 0, 0, <<>>)>>
       \/ \E path \in Paths :
             /\ Overflowed(hid_to_unix_path(path))
             /\ pc' = "aborted"
             /\ trace' = trace \o <<Ev("hid_open_path", "", "", 0, 0, <<>>)>>
                               \o hid_to_unix_path(path)
             /\ UNCHANGED <<heap, handles, device, ctxError>>
    /\ UNCHANGED <<nonblocking, callbacks, pose, lastWindow, queued, buffer>>

\* A failure of hid_set_nonblocking that sets the error and goes on (the
\* goto cleanup lost): the handle stays in blocking mode.
OpenNonblock_GoesOn ==
    /\ pc = "open_nonblock"
    /\ \/ /\ nonblocking' = TRUE
          /\ trace' = Append(trace, Ev("hid_set_nonblocking", "", "", 0, 0, <<>>))
          /\ UNCHANGED ctxError
       \/ /\ nonblocking' = FALSE
          /\ ctxError' = "failed to set non-blocking on device"
          /\ trace' = Append(trace, Ev("hid_set_nonblocking", "", "", 0, -1, <<>>))
    /\ pc' = "open_register"
    /\ UNCHANGED <<heap, device, handles, callbacks, pose, lastWindow, queued,
                   buffer>>

\* nolo.c:142-145  hid_set_nonblocking(priv->handle, 1)
OpenNonblock ==
    /\ pc = "open_nonblock"
    /\ \/ /\ nonblocking' = TRUE
          /\ pc' = "open_register"
          /\ trace' = Append(trace, Ev("hid_set_nonblocking", "", "", 0, 0, <<>>))
          /\ UNCHANGED <<heap, device, ctxError>>
       \/ /\ nonblocking' = FALSE
          /\ ctxError' = "failed to set non-blocking on device"
          /\ Cleanup
          /\ trace' = trace \o <<Ev("hid_set_nonblocking", "", "", 0, -1, <<>>),
                                 Ev("return", "", "NULL", 0, 0, <<>>)>>
    /\ UNCHANGED <<handles, callbacks, pose, lastWindow, queued, buffer>>

\* nolo.c:147-155  default properties, the three callbacks, return &priv->base
OpenRegister ==
    /\ pc = "open_register"
    /\ callbacks' = TRUE
    /\ device' = "priv"
    /\ pc' = "idle"
    /\ trace' = Append(trace, Ev("return", "", "priv", 0, 0, <<>>))
    /\ UNCHANGED <<heap, handles, nonblocking, ctxError, pose, lastWindow,
                   queued, buffer>>

\* nolo.c:99-105  hid_close(priv->handle); free(priv);
\* The poses go with the freed drv_priv; the next one is zero-filled.
close_device ==
    /\ pc = "idle"
    /\ device = "priv"
    /\ handles' = handles - 1
    /\ heap' = heap - 1
    /\ device' = "NULL"
    /\ callbacks' = FALSE
    /\ nonblocking' = FALSE
    /\ queued' = 0
    /\ pose' = [d \in Devices |-> ZeroPose]
    /\ lastWindow' = [d \in Devices |-> <<>>]
    /\ trace' = <<Ev("close_device", "", "", 0, 0, <<>>)>>
    /\ UNCHANGED <<pc, ctxError, buffer>>

\* The hardware sends a report, which the transport queues for the handle.
\* The queue is fixed while a callback runs: a poll finds a finite queue.
Arrive ==
    /\ pc = "idle"
    /\ device = "priv"
    /\ queued < MaxQueue
    /\ queued' = queued + 1
    /\ UNCHANGED <<pc, heap, handles, nonblocking, device, callbacks, ctxError,
                   pose, lastWindow, buffer, trace>>

\* ---------------------------------------------------------- Pose Decoder

\* The len bytes a decoder given the pointer buffer+off can read; an address
\* outside buffer[] holds no byte of it, shown as -2.
Window(buf, off, len) ==
    [k \in 1..len |->
        IF (off + k - 1) \in DOMAIN buf THEN buf[off + k - 1] ELSE -2]

\* The Pose Decoder's result for one record: a position triplet first, then
\* a vector and a quaternion (the layout the specification gives the
\* controller record; the field encodings are the decoder's own).
DecodePose(w) ==
    [position |-> <<w[1], w[2], w[3]>>,
     rotation |-> <<w[7], w[8], w[9], w[10]>>]

ControllerDevice(idx) == IF idx = 0 THEN "controller0" ELSE "controller1"

\* nolo.c:59-60  where in buffer[] the record of controller idx starts.
ControllerOffset(idx) == IF idx = 0 THEN Controller0Offset ELSE Controller1Offset

\* A decoder call: the decoder named fn, for device dev, on the window at
\* buffer+off, overwrites that device's pose.
Decode(fn, dev, off, len) ==
    /\ pose' = [pose EXCEPT ![dev] = DecodePose(Window(buffer, off, len))]
    /\ lastWindow' = [lastWindow EXCEPT ![dev] = Window(buffer, off, len)]
    /\ trace' = Append(trace, Ev("decode", dev, fn, off, 0, <<>>))

nolo_decode_controller(idx, off) ==
    Decode("nolo_decode_controller", ControllerDevice(idx), off, controllerLength)

nolo_decode_hmd_marker(off) ==
    Decode("nolo_decode_hmd_marker", "hmd", off, markerLength)

nolo_decode_base_station(off) ==
    Decode("nolo_decode_base_station", "base_station", off, stationLength)

\* ---------------------------------------------------------- update_device

\* nolo.c:40-43  the host calls device->update; buffer[] is uninitialised.
UpdateCall ==
    /\ pc = "idle"
    /\ device = "priv"
    /\ callbacks
    /\ pc' = "read"
    /\ \E g \in StackBytes : buffer' = [i \in 0..(FEATURE_BUFFER_SIZE - 1) |-> g]
    /\ trace' = <<Ev("update_device", "", "", queued, 0, <<>>)>>
    /\ UNCHANGED <<heap, handles, nonblocking, device, callbacks, ctxError,
                   pose, lastWindow, queued>>

\* A read error that is logged and not returned from: the switch runs on
\* what buffer[] holds.
AfterReadError_FallThrough == "switch"

\* Where update_device goes after a read that returned a negative size.
\* nolo.c:49-51  LOGE("error reading from device"); return;
AfterReadError == "idle"

\* An empty read that does not return: the loop reads again.
AfterReadEmpty_ReadAgain == "read"

\* An empty read taken for a report: the switch runs on what buffer[] holds.
AfterReadEmpty_FallThrough == "switch"

\* Where update_device goes after a read that returned 0.
\* nolo.c:52-53  return;
AfterReadEmpty == "idle"

\* A case that ends back at the switch instead of at the read: the report
\* in buffer[] is dispatched again.
AfterDispatch_SwitchAgain == "switch"

\* Where update_device goes after a case of the switch is done.
\* nolo.c:47, 61, 65  break, and the end of the loop body: read again
AfterDispatch == "read"

\* An unknown tag treated as fatal: the default case returns.
AfterUnknown_Return == "idle"

\* Where update_device goes after the default case.
\* nolo.c:66-69  the end of the switch and of the loop body: read again
AfterUnknown == "read"

\* nolo.c:48-51  hid_read fails.
HidReadError ==
    /\ pc = "read"
    /\ pc' = AfterReadError
    /\ trace' = trace \o <<Ev("hid_read", "", "", 0, -1, <<>>),
                           Ev("LOGE", "", "error reading from device", 0, 0, <<>>)>>
    /\ buffer' = IF pc' = "idle" THEN NoBuffer ELSE buffer
    /\ UNCHANGED <<heap, handles, nonblocking, device, callbacks, ctxError,
                   pose, lastWindow, queued>>

\* nolo.c:48, 52-54  hid_read on a handle with nothing queued returns 0.
HidReadEmpty ==
    /\ pc = "read"
    /\ queued = 0
    /\ pc' = AfterReadEmpty
    /\ trace' = Append(trace, Ev("hid_read", "", "", 0, 0, <<>>))
    /\ buffer' = IF pc' = "idle" THEN NoBuffer ELSE buffer
    /\ UNCHANGED <<heap, handles, nonblocking, device, callbacks, ctxError,
                   pose, lastWindow, queued>>

\* nolo.c:48  hid_read copies the oldest queued report, size bytes of it,
\* to the start of buffer[] and returns size.
HidReadReport ==
    /\ pc = "read"
    /\ queued > 0
    /\ \E t \in Tags, p \in Payloads, size \in ReadSizes :
         /\ buffer' = [i \in 0..(FEATURE_BUFFER_SIZE - 1) |->
                          IF i < size THEN ReportByte(t, p, i) ELSE buffer[i]]
         /\ trace' = Append(trace, Ev("hid_read", "", "", t, size, <<>>))
    /\ queued' = queued - 1
    /\ pc' = "switch"
    /\ UNCHANGED <<heap, handles, nonblocking, device, callbacks, ctxError,
                   pose, lastWindow>>

\* The two calls of case 0xa5 in the other order: index 1 first.
DispatchController0_IndexOneFirst ==
    /\ pc = "switch"
    /\ buffer[0] = TagControllers
    /\ nolo_decode_controller(1, ControllerOffset(1))
    /\ pc' = "case_a5_second"
    /\ UNCHANGED <<heap, handles, nonblocking, device, callbacks, ctxError,
                   queued, buffer>>

\* nolo.c:58-59  case 0xa5: nolo_decode_controller(0, buffer+1);
DispatchController0 ==
    /\ pc = "switch"
    /\ buffer[0] = TagControllers
    /\ nolo_decode_controller(0, ControllerOffset(0))
    /\ pc' = "case_a5_second"
    /\ UNCHANGED <<heap, handles, nonblocking, device, callbacks, ctxError,
                   queued, buffer>>

\* nolo.c:60-61  nolo_decode_controller(1, buffer+64-controllerLength); break;
DispatchController1 ==
    /\ pc = "case_a5_second"
    /\ nolo_decode_controller(1, ControllerOffset(1))
    /\ pc' = AfterDispatch
    /\ UNCHANGED <<heap, handles, nonblocking, device, callbacks, ctxError,
                   queued, buffer>>

\* nolo.c:62-63  case 0xa6: nolo_decode_hmd_marker(priv, buffer+0x15);
DispatchHmdMarker ==
    /\ pc = "switch"
    /\ buffer[0] = TagHmd
    /\ nolo_decode_hmd_marker(HmdMarkerOffset)
    /\ pc' = "case_a6_second"
    /\ UNCHANGED <<heap, handles, nonblocking, device, callbacks, ctxError,
                   queued, buffer>>

\* nolo.c:64-65  nolo_decode_base_station(priv, buffer+0x36); break;
DispatchBaseStation ==
    /\ pc = "case_a6_second"
    /\ nolo_decode_base_station(BaseStationOffset)
    /\ pc' = AfterDispatch
    /\ UNCHANGED <<heap, handles, nonblocking, device, callbacks, ctxError,
                   queued, buffer>>

\* nolo.c:66-68  default: LOGE("unknown message type: %u", buffer[0]);
DispatchUnknown ==
    /\ pc = "switch"
    /\ buffer[0] \notin {TagControllers, TagHmd}
    /\ trace' = Append(trace, Ev("LOGE", "", "unknown message type", buffer[0], 0, <<>>))
    /\ pc' = AfterUnknown
    /\ UNCHANGED <<heap, handles, nonblocking, device, callbacks, ctxError,
                   pose, lastWindow, queued, buffer>>

\* ------------------------------------------------------------------- getf

\* A default case that falls through to return 0.
getf_ret_AlwaysZero(kind) == 0

\* nolo.c:79-96  what getf returns for a value kind.
getf_ret(kind) ==
    IF kind \in {"OHMD_ROTATION_QUAT", "OHMD_POSITION_VECTOR"} THEN 0 ELSE -1

\* A position case that copies the rotation.
getf_out_PositionCopiesRotation(dev, kind, out) ==
    CASE kind = "OHMD_ROTATION_QUAT" -> pose[dev].rotation
      [] kind = "OHMD_POSITION_VECTOR" -> pose[dev].rotation
      [] OTHER -> out

\* nolo.c:81-93  what getf leaves in the caller's buffer out[0..3]: a quatf
\* is four floats, a vec3f three, and the default case writes nothing.
getf_out(dev, kind, out) ==
    CASE kind = "OHMD_ROTATION_QUAT" -> pose[dev].rotation
      [] kind = "OHMD_POSITION_VECTOR" -> pose[dev].position \o <<out[4]>>
      [] OTHER -> out

\* nolo.c:90-92  the default case sets the context's error.
getf_error(kind, err) ==
    IF kind \in {"OHMD_ROTATION_QUAT", "OHMD_POSITION_VECTOR"}
    THEN err
    ELSE "invalid type given to getf"

\* A rotation case with the assignment turned around: the caller's buffer
\* is copied into priv->base.rotation.
getf_CopiesInward ==
    /\ pc = "idle"
    /\ device = "priv"
    /\ callbacks
    /\ \E dev \in Devices, kind \in FloatKinds :
         /\ trace' = <<Ev("getf", dev, kind, 0, getf_ret(kind),
                          IF kind = "OHMD_ROTATION_QUAT" THEN OutBefore
                          ELSE getf_out(dev, kind, OutBefore))>>
         /\ ctxError' = getf_error(kind, ctxError)
         /\ pose' = IF kind = "OHMD_ROTATION_QUAT"
                    THEN [pose EXCEPT ![dev].rotation = OutBefore]
                    ELSE pose
    /\ UNCHANGED <<pc, heap, handles, nonblocking, device, callbacks,
                   lastWindow, queued, buffer>>

\* nolo.c:75-97  the host calls device->getf(device, type, out).
getf ==
    /\ pc = "idle"
    /\ device = "priv"
    /\ callbacks
    /\ \E dev \in Devices, kind \in FloatKinds :
         /\ trace' = <<Ev("getf", dev, kind, 0, getf_ret(kind),
                          getf_out(dev, kind, OutBefore))>>
         /\ ctxError' = getf_error(kind, ctxError)
    /\ UNCHANGED <<pc, heap, handles, nonblocking, device, callbacks, pose,
                   lastWindow, queued, buffer>>

Next ==
    \/ OpenAlloc
    \/ OpenHid
    \/ OpenNonblock
    \/ OpenRegister
    \/ close_device
    \/ Arrive
    \/ UpdateCall
    \/ HidReadError
    \/ HidReadEmpty
    \/ HidReadReport
    \/ DispatchController0
    \/ DispatchController1
    \/ DispatchHmdMarker
    \/ DispatchBaseStation
    \/ DispatchUnknown
    \/ getf

Spec == Init /\ [][Next]_vars

\* A running callback runs to completion: the host is single threaded and
\* no step of update_device or open_device waits (the handle is
\* non-blocking).
Running ==
    \/ OpenHid
    \/ OpenNonblock
    \/ OpenRegister
    \/ HidReadError
    \/ HidReadEmpty
    \/ HidReadReport
    \/ DispatchController0
    \/ DispatchController1
    \/ DispatchHmdMarker
    \/ DispatchBaseStation
    \/ DispatchUnknown

FairSpec == Spec /\ WF_vars(Running)

\* ------------------------------------------------- reading a callback's trace

\* The positions of the hid_read calls of a trace, and of those that
\* returned a report (size > 0).
ReadIdx(tr) == {i \in DOMAIN tr : tr[i].op = "hid_read"}
ReportIdx(tr) == {i \in ReadIdx(tr) : tr[i].ret > 0}

\* The position of the first hid_read after position i, Len(tr) + 1 if none.
NextRead(tr, i) ==
    LET later == {j \in ReadIdx(tr) : j > i}
    IN IF later = {} THEN Len(tr) + 1
       ELSE CHOOSE j \in later : \A k \in later : j <= k

\* What update_device did with the report read at position i: the steps up
\* to the next read.
Dispatched(tr, i) == SubSeq(tr, i + 1, NextRead(tr, i) - 1)

\* Whether the dispatch of the report read at position i is over: the loop
\* is back at its read, or has read again.
DispatchDone(tr, i) == NextRead(tr, i) <= Len(tr) \/ pc \in {"read", "idle"}

\* The tag of the report read at position i: the first byte read.
ReportTag(tr, i) == tr[i].arg

\* The decoder calls among steps: decoder, device and offset of each.
DecoderCalls(steps) ==
    LET F[k \in 0..Len(steps)] ==
            IF k = 0 THEN <<>>
            ELSE IF steps[k].op = "decode"
                 THEN Append(F[k - 1], <<steps[k].kind, steps[k].dev, steps[k].arg>>)
                 ELSE F[k - 1]
    IN F[Len(steps)]

IsPrefix(a, b) == Len(a) <= Len(b) /\ a = SubSeq(b, 1, Len(a))

\* ----------------------------------------------------------------- claims

\* C1: for every report with tag 0xa5 that update_device dispatched, the
\* controller-0 decoder was handed the window [1, 1+controllerLength) and the
\* controller-1 decoder the window [64-controllerLength, 64), with
\* controllerLength = 22; the two windows are disjoint and lie in [0, 64).
C1_ControllerWindows ==
    \A i \in ReportIdx(trace) :
        (ReportTag(trace, i) = 165 /\ DispatchDone(trace, i)) =>
            LET calls == DecoderCalls(Dispatched(trace, i))
                w0 == calls[1][3] .. (calls[1][3] + controllerLength - 1)
                w1 == calls[2][3] .. (calls[2][3] + controllerLength - 1)
            IN /\ Len(calls) = 2
               /\ calls[1][1] = "nolo_decode_controller" /\ calls[1][2] = "controller0"
               /\ calls[2][1] = "nolo_decode_controller" /\ calls[2][2] = "controller1"
               /\ controllerLength = 22
               /\ w0 = 1..22
               /\ w1 = 42..63
               /\ w0 \cap w1 = {}
               /\ 1 + controllerLength <= 64 - controllerLength
               /\ w0 \subseteq 0..63 /\ w1 \subseteq 0..63

\* A 0xa5 report has been dispatched in full and the loop is back at its read.
C1_Witness ==
    /\ pc = "read"
    /\ \E i \in ReportIdx(trace) :
         /\ ReportTag(trace, i) = 165
         /\ Len(DecoderCalls(Dispatched(trace, i))) = 2

\* C2: for every report with tag 0xa6 that update_device dispatched, the
\* HMD-marker decoder was called exactly once, at offset 21 (0x15), the
\* base-station decoder exactly once, at offset 54 (0x36), and no controller
\* decoder was called; while the dispatch is under way the calls made so far
\* are the first of these.
C2_HmdWindows ==
    LET expected == << <<"nolo_decode_hmd_marker", "hmd", 21>>,
                       <<"nolo_decode_base_station", "base_station", 54>> >>
    IN \A i \in ReportIdx(trace) :
        ReportTag(trace, i) = 166 =>
            /\ IsPrefix(DecoderCalls(Dispatched(trace, i)), expected)
            /\ DispatchDone(trace, i) => DecoderCalls(Dispatched(trace, i)) = expected

\* A 0xa6 report has been dispatched in full and the loop is back at its read.
C2_Witness ==
    /\ pc = "read"
    /\ \E i \in ReportIdx(trace) :
         /\ ReportTag(trace, i) = 166
         /\ Len(DecoderCalls(Dispatched(trace, i))) = 2

\* Whether a trace is of an update_device call.
IsUpdate(tr) == tr # <<>> /\ tr[1].op = "update_device"

\* The last hid_read of a trace that holds one.
LastRead(tr) == tr[CHOOSE i \in ReadIdx(tr) : \A j \in ReadIdx(tr) : j <= i]

UpdateRunning == pc \in {"read", "switch", "case_a5_second", "case_a6_second"}

\* The hid_read calls of the update_device call so far are one per report
\* consumed, plus the terminating read once the call has returned; the call
\* consumes no more than the N reports the transport held, and after a
\* terminating read of 0 it has made N + 1 reads.
C3_ReadCount ==
    IsUpdate(trace) =>
        LET reads == Cardinality(ReadIdx(trace))
            consumed == Cardinality(ReportIdx(trace))
            N == trace[1].arg
        IN /\ consumed <= N
           /\ UpdateRunning => reads = consumed
           /\ pc = "idle" =>
                /\ reads = consumed + 1
                /\ LastRead(trace).ret <= 0
                /\ LastRead(trace).ret = 0 => reads = N + 1

\* C3: for any finite queue of N reports held by the transport, one call of
\* update_device terminates, having made as many hid_read calls as the
\* reports it consumed plus one (the terminating read, which returned 0 or
\* a negative value), N + 1 of them when no read failed.
C3_PollTerminates ==
    /\ []C3_ReadCount
    /\ UpdateRunning ~> (pc = "idle")

\* A call that found two reports queued has returned after a terminating
\* read of 0: three reads.
C3_Witness ==
    /\ IsUpdate(trace)
    /\ pc = "idle"
    /\ trace[1].arg = 2
    /\ LastRead(trace).ret = 0
    /\ Cardinality(ReadIdx(trace)) = 3

\* An unrecognized tag reaches no decoder, is logged and discarded, and the
\* loop goes on to its next read.
C4_UnknownDiscarded ==
    \A i \in ReportIdx(trace) :
        ReportTag(trace, i) \notin {165, 166} =>
            /\ DecoderCalls(Dispatched(trace, i)) = <<>>
            /\ DispatchDone(trace, i) =>
                 /\ Len(Dispatched(trace, i)) = 1
                 /\ Dispatched(trace, i)[1].op = "LOGE"
                 /\ NextRead(trace, i) <= Len(trace) \/ pc = "read"

\* C4: a report whose tag is neither 0xa5 nor 0xa6 causes no decoder call
\* and leaves every Device Pose unchanged, and it does not end the polling
\* loop: the reports queued after it are still read and dispatched.
C4_UnknownTagIgnored ==
    /\ []C4_UnknownDiscarded
    /\ [][(pc = "switch" /\ buffer[0] \notin {165, 166})
            => (pose' = pose /\ lastWindow' = lastWindow /\ pc' = "read")]_vars

\* The sequence [0xFF-tagged, 0xa5-tagged]: both were read in one call and
\* only the second reached the decoders.
C4_Witness ==
    /\ IsUpdate(trace)
    /\ pc = "read"
    /\ Len(trace) = 6
    /\ trace[2].op = "hid_read" /\ trace[2].arg = 255
    /\ trace[3].op = "LOGE"
    /\ trace[4].op = "hid_read" /\ trace[4].arg = 165
    /\ Len(DecoderCalls(trace)) = 2
    /\ pose["controller0"] # ZeroPose

\* C5: when a read in update_device returns a negative size, the call
\* reports the failure and returns at once: no decoder is invoked for that
\* read and no further read is made in that call; nothing of the failure
\* stays behind: the host can call update_device again at once, and any
\* call, whatever came before it, can read a queued report and dispatch
\* what it read.
C5_ReadErrorReturns ==
    /\ \A i \in ReadIdx(trace) :
         trace[i].ret < 0 =>
            /\ pc = "idle"
            /\ i = Len(trace) - 1
            /\ trace[Len(trace)].op = "LOGE"
            /\ trace[Len(trace)].kind = "error reading from device"
    /\ (IsUpdate(trace) /\ pc = "idle" /\ LastRead(trace).ret < 0) => ENABLED UpdateCall
    /\ (pc = "read" /\ queued > 0) => ENABLED HidReadReport
    /\ pc = "switch" =>
         ENABLED (DispatchController0 \/ DispatchHmdMarker \/ DispatchUnknown)

\* A call dispatched a report, its next read failed, and it has returned.
C5_Witness ==
    /\ IsUpdate(trace)
    /\ pc = "idle"
    /\ LastRead(trace).ret < 0
    /\ Cardinality(ReadIdx(trace)) = 2
    /\ queued > 0

\* When the first read of a call returned 0, the call is over after that
\* one read, with no decoder call.
C6_EmptyReturns ==
    (IsUpdate(trace) /\ Len(trace) >= 2
        /\ trace[2].op = "hid_read" /\ trace[2].ret = 0) =>
        /\ Len(trace) = 2
        /\ Cardinality(ReadIdx(trace)) = 1
        /\ DecoderCalls(trace) = <<>>
        /\ pc = "idle"

\* C6: when the first read of an update_device call returns size 0, the call
\* makes exactly one read, invokes no decoder, and returns with every Device
\* Pose unchanged: neither the call nor the read changes a pose.
C6_EmptyPollTouchesNothing ==
    /\ []C6_EmptyReturns
    /\ [][(pc = "idle" /\ pc' = "read") => pose' = pose]_vars
    /\ [][(pc = "read" /\ Len(trace) = 1 /\ queued = 0) => pose' = pose]_vars

\* A call on an empty transport has returned, after poses were decoded by
\* an earlier call.
C6_Witness ==
    /\ IsUpdate(trace)
    /\ pc = "idle"
    /\ Len(trace) = 2
    /\ trace[2].ret = 0
    /\ pose["hmd"] # ZeroPose

\* C7: getf called with a value kind other than ROTATION_QUAT or
\* POSITION_VECTOR returns -1, records an error on the context and does not
\* write the output buffer; called with one of the two it returns 0.
C7_GetfUnsupportedKind ==
    (trace # <<>> /\ trace[1].op = "getf") =>
        IF trace[1].kind \in {"OHMD_ROTATION_QUAT", "OHMD_POSITION_VECTOR"}
        THEN trace[1].ret = 0
        ELSE /\ trace[1].ret = -1
             /\ ctxError = "invalid type given to getf"
             /\ trace[1].out = OutBefore

\* getf was called with an unsupported kind.
C7_Witness ==
    /\ trace # <<>>
    /\ trace[1].op = "getf"
    /\ trace[1].kind = "OHMD_DISTORTION_K"
    /\ trace[1].ret = -1

C9_FailedOpenReleasesAll ==
    (trace # <<>> /\ trace[1].op = "open_device" /\ pc = "idle"
        /\ trace[Len(trace)].op = "return" /\ trace[Len(trace)].kind = "NULL") =>
        /\ heap = 0
        /\ handles = 0

DecodedDevices(steps) ==
    [k \in DOMAIN DecoderCalls(steps) |-> DecoderCalls(steps)[k][2]]

\* C11: within the dispatch of one 0xa5 report the decoder call for
\* controller index 0 happens before the call for index 1, and within one
\* 0xa6 report the marker decoder call happens before the base-station
\* call; both calls of a report are made before the next read.
C11_DecoderOrder ==
    /\ \A i \in ReportIdx(trace) :
         LET devs == DecodedDevices(Dispatched(trace, i))
         IN /\ ReportTag(trace, i) = 165 =>
                 IsPrefix(devs, <<"controller0", "controller1">>)
            /\ ReportTag(trace, i) = 166 =>
                 IsPrefix(devs, <<"hmd", "base_station">>)
            /\ (ReportTag(trace, i) \in {165, 166} /\ NextRead(trace, i) <= Len(trace)) =>
                 Len(devs) = 2
    /\ pc = "case_a5_second" =>
         trace[Len(trace)].op = "decode" /\ trace[Len(trace)].dev = "controller0"
    /\ pc = "case_a6_second" =>
         trace[Len(trace)].op = "decode" /\ trace[Len(trace)].dev = "hmd"

\* A 0xa5 report and then a 0xa6 report were dispatched, each with its two
\* calls, and the loop has read again.
C11_Witness ==
    /\ IsUpdate(trace)
    /\ Len(trace) = 8
    /\ trace[2].op = "hid_read" /\ trace[2].arg = 165
    /\ trace[3].dev = "controller0" /\ trace[4].dev = "controller1"
    /\ trace[5].op = "hid_read" /\ trace[5].arg = 166
    /\ trace[6].dev = "hmd" /\ trace[7].dev = "base_station"
    /\ trace[8].op = "hid_read"

\* C12: the stored rotation and position of a device change only in a step
\* that is a Pose Decoder call for that device: getf (with any kind), a
\* read returning 0 or an error, and the dispatch of an unrecognized tag
\* leave them unchanged, as does every other step taken while the device is
\* open.
C12_PoseOnlyByDecoder ==
    [][\A d \in Devices :
         (device' = "priv" /\ pose'[d] # pose[d]) =>
            /\ pc \in {"switch", "case_a5_second", "case_a6_second"}
            /\ trace' = Append(trace, trace'[Len(trace')])
            /\ trace'[Len(trace')].op = "decode"
            /\ trace'[Len(trace')].dev = d]_vars

\* getf was refused a kind on a device whose pose a decoder had written.
C12_Witness ==
    /\ trace # <<>>
    /\ trace[1].op = "getf"
    /\ trace[1].ret = -1
    /\ device = "priv"
    /\ pose[trace[1].dev] # ZeroPose
    /\ pose["controller0"] # pose["hmd"]

\* Whether a trace is of an open_device call.
IsOpen(tr) == tr # <<>> /\ tr[1].op = "open_device"

\* C13: every device open_device returns has a transport handle on which
\* non-blocking mode was set successfully before the callbacks were
\* registered, so update_device never runs on a handle in blocking mode; if
\* setting non-blocking fails, open_device returns no device.
C13_NonblockingBeforeCallbacks ==
    /\ callbacks => nonblocking
    /\ device = "priv" => (nonblocking /\ callbacks /\ handles >= 1)
    /\ UpdateRunning => nonblocking
    /\ pc = "open_register" => (nonblocking /\ ~callbacks)
    /\ IsOpen(trace) =>
         /\ \A i \in DOMAIN trace :
              (trace[i].op = "hid_set_nonblocking" /\ trace[i].ret = -1) =>
                 /\ pc = "idle"
                 /\ device = "NULL"
                 /\ ~callbacks
                 /\ trace[Len(trace)].op = "return"
                 /\ trace[Len(trace)].kind = "NULL"
         /\ (trace[Len(trace)].op = "return" /\ trace[Len(trace)].kind = "priv") =>
              \E i \in DOMAIN trace :
                 trace[i].op = "hid_set_nonblocking" /\ trace[i].ret = 0

\* update_device is running on the device open_device returned.
C13_Witness ==
    /\ pc = "switch"
    /\ device = "priv"
    /\ callbacks
    /\ nonblocking

\* What the dispatch of a report with a given tag consists of: the steps
\* and the device of each.
ExpectedDispatch(tag) ==
    CASE tag = 165 -> << <<"decode", "controller0">>, <<"decode", "controller1">> >>
      [] tag = 166 -> << <<"decode", "hmd">>, <<"decode", "base_station">> >>
      [] OTHER -> << <<"LOGE", "">> >>

\* The steps made for the report read at position i, and the device of each.
DispatchSteps(tr, i) ==
    [k \in DOMAIN Dispatched(tr, i) |->
        <<Dispatched(tr, i)[k].op, Dispatched(tr, i)[k].dev>>]

\* C14: within one update_device call, every report the transport delivers
\* with size > 0 is dispatched exactly once, in the order delivered, and
\* each dispatch completes before the next read: each read takes one report
\* off the transport's queue, the switch sees the tag that read delivered,
\* and the steps between a read and the next are exactly the dispatch of
\* the report that read delivered.
C14_EachReportDispatchedOnce ==
    IsUpdate(trace) =>
        /\ UpdateRunning => queued + Cardinality(ReportIdx(trace)) = trace[1].arg
        /\ pc = "switch" =>
             /\ trace[Len(trace)].op = "hid_read"
             /\ trace[Len(trace)].ret > 0
             /\ buffer[0] = trace[Len(trace)].arg
        /\ \A i \in ReportIdx(trace) :
             /\ IsPrefix(DispatchSteps(trace, i), ExpectedDispatch(ReportTag(trace, i)))
             /\ DispatchDone(trace, i) =>
                  DispatchSteps(trace, i) = ExpectedDispatch(ReportTag(trace, i))

\* A 0xa6 report and then an unknown one were delivered in one call and
\* each was dispatched in turn.
C14_Witness ==
    /\ IsUpdate(trace)
    /\ pc = "read"
    /\ Cardinality(ReportIdx(trace)) = 2
    /\ trace[2].arg = 166
    /\ trace[5].op = "hid_read" /\ trace[5].arg = 255
    /\ Len(trace) = 6

\* The bytes a decoder reads from the pointer it is handed.
WindowLength(fn) ==
    CASE fn = "nolo_decode_controller" -> controllerLength
      [] fn = "nolo_decode_hmd_marker" -> markerLength
      [] fn = "nolo_decode_base_station" -> stationLength

\* C15: every byte of a window handed to a decoder was written by the read
\* of the same loop iteration: when the read returned size, no decoder is
\* given bytes of buffer[] at offsets >= size.
C15_WindowsWithinBytesRead ==
    \A i \in ReportIdx(trace) :
        \A k \in DOMAIN Dispatched(trace, i) :
            LET e == Dispatched(trace, i)[k]
            IN e.op = "decode" => e.arg + WindowLength(e.kind) <= trace[i].ret

\* C16: on the open-failure path every formatted write of _hid_to_unix_path
\* stays inside its destination: the fields into the 4-byte bus and dev
\* buffers and "/dev/bus/usb/NNN/NNN" into the 21-byte result.
C16_FormattedWritesInBounds ==
    \A k \in DOMAIN trace :
        trace[k].op = "sprintf" => trace[k].ret <= trace[k].arg

====
